---- MODULE Spec2Model ----
(***************************************************************************)
(* Model of the BSV command-line utilities, starting with carve: the       *)
(* transaction builder (flag validation, UTXO fetch, largest-first         *)
(* selection, fee estimation, payment/change outputs, signing, emission).  *)
(*                                                                         *)
(* uint64 arithmetic of the Go code is kept as arithmetic modulo Word.     *)
(* TLC's integers are 32 bits wide, so the word is 2^WordBits with         *)
(* WordBits < 64; every uint64 +, - and * of the source wraps at Word.     *)
(***************************************************************************)
EXTENDS Integers, Sequences, FiniteSets, TLC

(***************************************************************************)
(* Bounds of the model.                                                    *)
(***************************************************************************)
WordBits == 20            \* width of the modelled uint64
MaxUtxos == 2             \* entries in one provider response (carve workflow)
MaxSplit == 3             \* largest --split value explored
MaxSelectLen == 3         \* length of the lists handed to selectUTXOs directly
MaxFeeInputs == 3         \* numInputs explored for calculateFee
MaxFeeOutputs == 3        \* numOutputs explored for calculateFee
MaxAmount == 12           \* amounts 0..MaxAmount handed to buildTransaction directly
MaxFlags == 2             \* selector flags on a pick command line
MaxCount == 1             \* inputs, and outputs, of a transaction handed to pick
MaxSortLen == 13          \* length of the long lists handed to selectUTXOs

Word == 2^WordBits
MaxWord == Word - 1

(***************************************************************************)
(* Transaction size estimation constants.                                  *)
(***************************************************************************)
inputSize == 148
outputSize == 34
baseTxSize == 10
minFee == 100

(***************************************************************************)
(* uint64 operations.                                                      *)
(***************************************************************************)
AddWord(a, b) == (a + b) % Word
SubWord(a, b) == (a - b + Word) % Word
MulWord(a, b) == (a * b) % Word

(***************************************************************************)
(* Plain (non-wrapping) helpers used to state properties.                  *)
(***************************************************************************)
RECURSIVE SumValues(_)
SumValues(s) == IF s = <<>> THEN 0 ELSE Head(s).Value + SumValues(Tail(s))

RECURSIVE SumSatoshis(_)
SumSatoshis(s) == IF s = <<>> THEN 0 ELSE Head(s).Satoshis + SumSatoshis(Tail(s))

Max(a, b) == IF a >= b THEN a ELSE b

(***************************************************************************)
(* calculateFee: size-based fee with the minFee floor.                     *)
(***************************************************************************)
\* Variant: the minimum is not enforced.
calculateFee_NoFloor(nIn, nOut, rate) ==
    LET estimatedSize == nIn * inputSize + nOut * outputSize + baseTxSize
    IN  MulWord(estimatedSize, rate) \div 1000

\* Variant: the size counts one output whatever numOutputs is.
calculateFee_OneOutput(nIn, nOut, rate) ==
    LET estimatedSize == nIn * inputSize + outputSize + baseTxSize
        fee == MulWord(estimatedSize, rate) \div 1000
    IN  IF fee < minFee THEN minFee ELSE fee

calculateFee(nIn, nOut, rate) ==
    LET estimatedSize == nIn * inputSize + nOut * outputSize + baseTxSize
        fee == MulWord(estimatedSize, rate) \div 1000
    IN  IF fee < minFee THEN minFee ELSE fee

(***************************************************************************)
(* sort.Slice(sortedUTXOs, less) with less(i, j) = Value[i] > Value[j].    *)
(* For slices of at most 12 elements Go's sort.Slice runs its insertion    *)
(* sort; every list within the bounds takes that path.                     *)
(***************************************************************************)
\* Variant: smallest first.
less_Ascending(a, b) == a.Value < b.Value

less(a, b) == a.Value > b.Value

Swap(s, i, j) == [s EXCEPT ![i] = s[j], ![j] = s[i]]

\* Variant: an element also moves past its equals.
RECURSIVE InsertDown_PastEquals(_, _)
InsertDown_PastEquals(s, j) ==
    IF j > 1 /\ ~less(s[j - 1], s[j])
    THEN InsertDown_PastEquals(Swap(s, j, j - 1), j - 1)
    ELSE s

RECURSIVE InsertDown(_, _)
InsertDown(s, j) ==
    IF j > 1 /\ less(s[j], s[j - 1])
    THEN InsertDown(Swap(s, j, j - 1), j - 1)
    ELSE s

RECURSIVE InsertionSort(_, _)
InsertionSort(s, i) ==
    IF i > Len(s) THEN s ELSE InsertionSort(InsertDown(s, i), i + 1)

SortSlice(s) == InsertionSort(s, 2)

(***************************************************************************)
(* sort.Slice on a slice of any length.  Above 12 elements it runs a       *)
(* pattern-defeating quicksort and does not promise to keep equal elements *)
(* in their original order: any order of the equal-valued elements is an   *)
(* outcome.  Arrangements(st, i, used) is the set of ways to fill the      *)
(* positions from i on with the unused elements of st of the same value.   *)
(***************************************************************************)
maxInsertion == 12

RECURSIVE Arrangements(_, _, _)
Arrangements(st, i, used) ==
    IF i > Len(st) THEN {<<>>}
    ELSE UNION {{<<st[j]>> \o rest : rest \in Arrangements(st, i + 1, used \cup {j})} :
                  j \in {k \in (1..Len(st)) \ used : st[k].Value = st[i].Value}}

sortSliceOutcomes(s) ==
    IF Len(s) <= maxInsertion
    THEN {SortSlice(s)}
    ELSE Arrangements(SortSlice(s), 1, {})

(***************************************************************************)
(* The slices of selectUTXOs: the caller's backing array and the sorted    *)
(* one.  The code allocates a fresh slice, copies, and sorts the copy.     *)
(***************************************************************************)
\* Variant: the caller's slice itself is sorted (no copy).
sortedCopy_InPlace(u) == [caller |-> SortSlice(u), sorted |-> SortSlice(u)]

sortedCopy(u) == [caller |-> u, sorted |-> SortSlice(u)]

(***************************************************************************)
(* The selection loop.  i is the index of the element about to be          *)
(* appended; totalValue is the running uint64 total of the first i-1.      *)
(***************************************************************************)
NoErr == [kind |-> "", have |-> 0, need |-> 0, amount |-> 0, fee |-> 0]
Err(k) == [kind |-> k, have |-> 0, need |-> 0, amount |-> 0, fee |-> 0]

\* Variant: the loop takes every UTXO and compares once at the end.
RECURSIVE selectLoop_NoStop(_, _, _, _, _)
selectLoop_NoStop(sorted, i, totalValue, targetAmount, rate) ==
    IF i > Len(sorted)
    THEN LET estimatedFee == calculateFee(Len(sorted), 2, rate)
         IN  IF totalValue >= AddWord(targetAmount, estimatedFee)
             THEN [ok |-> TRUE, selected |-> sorted, err |-> NoErr]
             ELSE [ok |-> FALSE, selected |-> <<>>,
                   err |-> [kind |-> "insufficient funds", have |-> totalValue,
                            need |-> AddWord(targetAmount, estimatedFee),
                            amount |-> targetAmount, fee |-> estimatedFee]]
    ELSE selectLoop_NoStop(sorted, i + 1, AddWord(totalValue, sorted[i].Value),
                           targetAmount, rate)

RECURSIVE selectLoop(_, _, _, _, _)
selectLoop(sorted, i, totalValue, targetAmount, rate) ==
    IF i > Len(sorted)
    THEN LET estimatedFee == calculateFee(Len(sorted), 2, rate)
         IN  [ok |-> FALSE, selected |-> <<>>,
              err |-> [kind |-> "insufficient funds", have |-> totalValue,
                       need |-> AddWord(targetAmount, estimatedFee),
                       amount |-> targetAmount, fee |-> estimatedFee]]
    ELSE LET total == AddWord(totalValue, sorted[i].Value)
             estimatedFee == calculateFee(i, 2, rate)
         IN  IF total >= AddWord(targetAmount, estimatedFee)
             THEN [ok |-> TRUE, selected |-> SubSeq(sorted, 1, i), err |-> NoErr]
             ELSE selectLoop(sorted, i + 1, total, targetAmount, rate)

(***************************************************************************)
(* selectUTXOs: result of the call together with the caller's slice as it  *)
(* is after the call.                                                      *)
(***************************************************************************)
selectUTXOs(u, targetAmount, rate) ==
    IF Len(u) = 0
    THEN [ok |-> FALSE, selected |-> <<>>, err |-> Err("no UTXOs available"),
          caller |-> u]
    ELSE LET mem == sortedCopy(u)
             r == selectLoop(mem.sorted, 1, 0, targetAmount, rate)
         IN  [ok |-> r.ok, selected |-> r.selected, err |-> r.err,
              caller |-> mem.caller]

(***************************************************************************)
(* parseUTXOResponse: the provider's reply decoded into UTXOs.  A body is  *)
(* [json, Error, Result]; json = FALSE is a body json.Unmarshal rejects.   *)
(* Entries spent in the mempool are skipped.  (uint32(u.TxPos) is the      *)
(* identity on the positions explored, all of which are below 2^32.)       *)
(***************************************************************************)
\* Variant: entries spent in the mempool are kept.
RECURSIVE parseLoop_KeepSpent(_, _)
parseLoop_KeepSpent(result, acc) ==
    IF result = <<>> THEN acc
    ELSE LET u == Head(result)
         IN  parseLoop_KeepSpent(Tail(result),
                                 Append(acc, [TxHash |-> u.TxHash, TxPos |-> u.TxPos,
                                              Value |-> u.Value]))

RECURSIVE parseLoop(_, _)
parseLoop(result, acc) ==
    IF result = <<>> THEN acc
    ELSE LET u == Head(result)
         IN  IF u.IsSpentInMempoolTx
             THEN parseLoop(Tail(result), acc)
             ELSE parseLoop(Tail(result),
                            Append(acc, [TxHash |-> u.TxHash, TxPos |-> u.TxPos,
                                         Value |-> u.Value]))

parseUTXOResponse(body) ==
    IF ~body.json THEN [ok |-> FALSE, utxos |-> <<>>, err |-> Err("failed to parse UTXOs")]
    ELSE IF body.Error # "" THEN [ok |-> FALSE, utxos |-> <<>>, err |-> Err("API error")]
    ELSE [ok |-> TRUE, utxos |-> parseLoop(body.Result, <<>>), err |-> NoErr]

(***************************************************************************)
(* filterAndDeduplicateUTXOs: first occurrence of each txid:vout is kept.  *)
(***************************************************************************)
Key(u) == <<u.TxHash, u.TxPos>>

\* Variant: every entry is kept, seen or not.
RECURSIVE dedupLoop_KeepAll(_, _, _)
dedupLoop_KeepAll(u, seen, acc) ==
    IF u = <<>> THEN acc
    ELSE dedupLoop_KeepAll(Tail(u), seen \cup {Key(Head(u))}, Append(acc, Head(u)))

RECURSIVE dedupLoop(_, _, _)
dedupLoop(u, seen, acc) ==
    IF u = <<>> THEN acc
    ELSE IF Key(Head(u)) \notin seen
         THEN dedupLoop(Tail(u), seen \cup {Key(Head(u))}, Append(acc, Head(u)))
         ELSE dedupLoop(Tail(u), seen, acc)

filterAndDeduplicateUTXOs(u) ==
    IF Len(u) = 0
    THEN [ok |-> FALSE, utxos |-> <<>>, err |-> Err("no UTXOs found")]
    ELSE LET dedupedUTXOs == dedupLoop(u, {}, <<>>)
         IN  IF Len(dedupedUTXOs) = 0
             THEN [ok |-> FALSE, utxos |-> <<>>, err |-> Err("no available UTXOs")]
             ELSE [ok |-> TRUE, utxos |-> dedupedUTXOs, err |-> NoErr]

(***************************************************************************)
(* fetchUTXOsFromAPI / getUnspentOutputs / fetchUTXOs: the HTTP exchange   *)
(* and what is made of its reply.                                          *)
(***************************************************************************)
fetchUTXOsFromAPI(reply) ==
    IF reply.transport # "ok"
    THEN [ok |-> FALSE, utxos |-> <<>>, err |-> Err("failed to fetch UTXOs")]
    ELSE IF reply.StatusCode # 200
    THEN [ok |-> FALSE, utxos |-> <<>>, err |-> Err("WhatsOnChain API error")]
    ELSE parseUTXOResponse(reply.body)

getUnspentOutputs(reply) ==
    LET r == fetchUTXOsFromAPI(reply)
    IN  IF ~r.ok THEN r ELSE filterAndDeduplicateUTXOs(r.utxos)

fetchUTXOs(reply) ==
    LET r == getUnspentOutputs(reply)
    IN  IF ~r.ok THEN r
        ELSE IF Len(r.utxos) = 0
        THEN [ok |-> FALSE, utxos |-> <<>>, err |-> Err("no UTXOs found")]
        ELSE r

(***************************************************************************)
(* buildTransaction and its steps.  A transaction is [Inputs, Outputs];    *)
(* an output is [Satoshis, to].                                            *)
(***************************************************************************)
NoTx == [Inputs |-> <<>>, Outputs |-> <<>>]

RECURSIVE addInputsTotal(_, _)
addInputsTotal(u, totalIn) ==
    IF u = <<>> THEN totalIn
    ELSE addInputsTotal(Tail(u), AddWord(totalIn, Head(u).Value))

addInputs(t, u) ==
    [tx |-> [t EXCEPT !.Inputs = t.Inputs \o u], totalInput |-> addInputsTotal(u, 0)]

\* Variant: the remainder goes to the first output.
addPaymentOutputs_RemainderFirst(t, destAddr, amount, numOutputs) ==
    LET n == IF numOutputs < 1 THEN 1 ELSE numOutputs
        amountPerOutput == amount \div n
        remainder == amount % n
        outs == [i \in 1..n |->
                   [Satoshis |-> IF i = 1
                                 THEN AddWord(amountPerOutput, remainder)
                                 ELSE amountPerOutput,
                    to |-> destAddr]]
    IN  [t EXCEPT !.Outputs = t.Outputs \o outs]

addPaymentOutputs(t, destAddr, amount, numOutputs) ==
    LET n == IF numOutputs < 1 THEN 1 ELSE numOutputs
        amountPerOutput == amount \div n
        remainder == amount % n
        outs == [i \in 1..n |->
                   [Satoshis |-> IF i = n
                                 THEN AddWord(amountPerOutput, remainder)
                                 ELSE amountPerOutput,
                    to |-> destAddr]]
    IN  [t EXCEPT !.Outputs = t.Outputs \o outs]

\* Variant: the fee of the estimated size alone, without the increment for
\* the change output.
changeFee_NoExtra(t, rate) ==
    LET estimatedSize == Len(t.Inputs) * inputSize + Len(t.Outputs) * outputSize
                         + baseTxSize
        fee0 == MulWord(estimatedSize, rate) \div 1000
    IN  IF fee0 < minFee THEN minFee ELSE fee0

changeFee(t, rate) ==
    LET estimatedSize == Len(t.Inputs) * inputSize + Len(t.Outputs) * outputSize
                         + baseTxSize
        fee0 == MulWord(estimatedSize, rate) \div 1000
        fee1 == AddWord(fee0, MulWord(outputSize, rate) \div 1000)
    IN  IF fee1 < minFee THEN minFee ELSE fee1

\* Variant: change up to a dust limit of 1 satoshi is left to the fee, as in
\* the earlier version of the tool (src/cmd/carve/carve.go, change > dustLimit).
addChangeOutput_Dust(t, changeAddr, totalIn, amount, rate) ==
    LET f == changeFee(t, rate)
        change == SubWord(SubWord(totalIn, amount), f)
    IN  [tx |-> IF change > 1
                THEN [t EXCEPT !.Outputs =
                          Append(t.Outputs, [Satoshis |-> change, to |-> changeAddr])]
                ELSE t,
         fee |-> f, change |-> change]

addChangeOutput(t, changeAddr, totalIn, amount, rate) ==
    LET f == changeFee(t, rate)
        change == SubWord(SubWord(totalIn, amount), f)
    IN  [tx |-> IF change > 0
                THEN [t EXCEPT !.Outputs =
                          Append(t.Outputs, [Satoshis |-> change, to |-> changeAddr])]
                ELSE t,
         fee |-> f, change |-> change]

ValidAddress(a) == a \notin {"", "bad"}

\* Variant: the change output pays the source address in every mode.
buildTransaction_ChangeToSource(sourceAddr, destAddrStr, u, amount, numOutputs, rate, lib) ==
    IF ~ValidAddress(destAddrStr)
    THEN [ok |-> FALSE, tx |-> NoTx, totalInput |-> 0, fee |-> 0,
          err |-> Err("invalid destination address")]
    ELSE IF lib = "add input fails"
    THEN [ok |-> FALSE, tx |-> NoTx, totalInput |-> 0, fee |-> 0,
          err |-> Err("failed to add input")]
    ELSE LET in == addInputs(NoTx, u)
             paid == IF amount > 0
                     THEN addPaymentOutputs(in.tx, destAddrStr, amount, numOutputs)
                     ELSE in.tx
             ch == addChangeOutput(paid, sourceAddr, in.totalInput, amount, rate)
         IN  IF lib = "sign fails"
             THEN [ok |-> FALSE, tx |-> NoTx, totalInput |-> in.totalInput,
                   fee |-> ch.fee, err |-> Err("failed to sign transaction")]
             ELSE [ok |-> TRUE, tx |-> ch.tx, totalInput |-> in.totalInput,
                   fee |-> ch.fee, err |-> NoErr]

buildTransaction(sourceAddr, destAddrStr, u, amount, numOutputs, rate, lib) ==
    IF ~ValidAddress(destAddrStr)
    THEN [ok |-> FALSE, tx |-> NoTx, totalInput |-> 0, fee |-> 0,
          err |-> Err("invalid destination address")]
    ELSE IF lib = "add input fails"
    THEN [ok |-> FALSE, tx |-> NoTx, totalInput |-> 0, fee |-> 0,
          err |-> Err("failed to add input")]
    ELSE LET in == addInputs(NoTx, u)
             paid == IF amount > 0
                     THEN addPaymentOutputs(in.tx, destAddrStr, amount, numOutputs)
                     ELSE in.tx
             changeAddr == IF amount = 0 THEN destAddrStr ELSE sourceAddr
             ch == addChangeOutput(paid, changeAddr, in.totalInput, amount, rate)
         IN  IF lib = "sign fails"
             THEN [ok |-> FALSE, tx |-> NoTx, totalInput |-> in.totalInput,
                   fee |-> ch.fee, err |-> Err("failed to sign transaction")]
             ELSE [ok |-> TRUE, tx |-> ch.tx, totalInput |-> in.totalInput,
                   fee |-> ch.fee, err |-> NoErr]

(***************************************************************************)
(* State.                                                                  *)
(*   pc          position of the running command                           *)
(*   wif, address, sats, split, feePerKb   the command-line flags          *)
(*   reply       the provider's HTTP reply, once received                  *)
(*   utxos       the caller's UTXO slice (result of fetchUTXOs)            *)
(*   selected    the slice returned by the selection step                  *)
(*   tx          the transaction returned by buildTransaction              *)
(*   totalInput, fee   the values computed inside buildTransaction         *)
(*   err         the error returned, NoErr if none                         *)
(*   stdout      the lines written to standard output                      *)
(*   numInputs, numOutputs, feeResult   arguments and result of a direct   *)
(*               call of calculateFee                                      *)
(*   cmdline     the selector flags of a pick command, as typed            *)
(*   txSource    what pick's transaction input will turn out to hold       *)
(*   pickTx      the transaction pick has parsed                           *)
(*   inputRead   whether pick has read its transaction input               *)
(*   encValue, encHex   argument and result of a direct call of            *)
(*               encodeUint32LE / encodeUint64LE                           *)
(***************************************************************************)
VARIABLES pc, wif, address, sats, split, feePerKb, reply, utxos, selected,
          tx, totalInput, fee, err, stdout, numInputs, numOutputs, feeResult,
          cmdline, txSource, pickTx, inputRead, encValue, encHex,
          bytes, pubKeyBytes, pollRate, trace

flagVars == <<wif, address, sats, split, feePerKb>>
carveVars == <<reply, utxos, selected, tx, totalInput, fee, err, stdout>>
feeVars == <<numInputs, numOutputs, feeResult>>
pickVars == <<cmdline, txSource, pickTx, inputRead>>
encVars == <<encValue, encHex>>
scriptVars == <<bytes, pubKeyBytes>>
monitorVars == <<pollRate, trace>>
toolVars == <<encVars, scriptVars, monitorVars>>
vars == <<pc, flagVars, carveVars, feeVars, pickVars, toolVars>>

(***************************************************************************)
(* Input domains.                                                          *)
(* Amounts and fee rates are free user input and range up to the top of    *)
(* the word.  The provider's UTXO values are satoshi amounts of existing   *)
(* outputs, whose total is far below the word size; the lists handed to    *)
(* selectUTXOs directly also hold values above half the word (HugeValue),  *)
(* two of which make the uint64 total wrap.                                *)
(***************************************************************************)
sourceAddress == "1Source"
Wifs == {"", "bad", "L1"}
Addresses == {"", "bad", "1Dest", sourceAddress}
BigRate == Word \div 100
\* 530 is the rate at which sending all of one input costs 101 satoshis
Rates == {100, 530, 1000, BigRate}
Amounts == {0, 1, 5, 774, Word - 50}
Splits == -1..MaxSplit

Keys == {<<"t1", 0>>, <<"t1", 1>>, <<"t2", 0>>}
Values == {101, 1000}
Entries == {[TxHash |-> k[1], TxPos |-> k[2], Value |-> v, IsSpentInMempoolTx |-> b] :
              k \in Keys, v \in Values, b \in BOOLEAN}
SeqsUpTo(S, n) == UNION {[1..m -> S] : m \in 0..n}
NoReply == [transport |-> "none", StatusCode |-> 0,
            body |-> [json |-> FALSE, Error |-> "", Result |-> <<>>]]
Replies ==
    {[transport |-> "failed", StatusCode |-> 0,
      body |-> [json |-> FALSE, Error |-> "", Result |-> <<>>]],
     [transport |-> "ok", StatusCode |-> 500,
      body |-> [json |-> FALSE, Error |-> "", Result |-> <<>>]],
     [transport |-> "ok", StatusCode |-> 200,
      body |-> [json |-> FALSE, Error |-> "", Result |-> <<>>]],
     [transport |-> "ok", StatusCode |-> 200,
      body |-> [json |-> TRUE, Error |-> "address not found", Result |-> <<>>]]}
    \cup {[transport |-> "ok", StatusCode |-> 200,
           body |-> [json |-> TRUE, Error |-> "", Result |-> r]] :
            r \in SeqsUpTo(Entries, MaxUtxos)}

HugeValue == (Word \div 2) + 1000
SelValues == {100, 1000, 2000, 5000, HugeValue}
SelRates == {0, 100, 1000, BigRate}
SelTargets == {0, 1, 774, 2500, 4000, HugeValue + 1000, Word - 100, MaxWord}
SelLists ==
    UNION {{[i \in 1..m |-> [TxHash |-> "u", TxPos |-> i, Value |-> f[i]]] :
              f \in [1..m -> SelValues]} : m \in 0..MaxSelectLen}

BuildAmounts == (0..MaxAmount) \cup {774, Word - 50}
BuildLists ==
    UNION {{[i \in 1..m |-> [TxHash |-> "u", TxPos |-> i, Value |-> f[i]]] :
              f \in [1..m -> Values]} : m \in 1..MaxUtxos}

\* the smallest rate whose product with the 192 bytes of a one-input
\* one-output transaction no longer fits the word
WrapRate == (Word \div 192) + 1
FeeRates == {0, 1, 100, 520, 521, 1000, 10000, WrapRate, BigRate, MaxWord}

(***************************************************************************)
(* The carve command: RunE and carveTransaction, one action per step.      *)
(***************************************************************************)
\* A line a command writes to standard output that is not a whole
\* transaction: [field, idx].  cmd.Help() writes the command's help text.
Line(field, idx) == [field |-> field, idx |-> idx]
HelpText == Line("help", 0)

NoPickTx == [parsed |-> FALSE, Inputs |-> <<>>, Outputs |-> <<>>]
NoSource == [kind |-> "none", tx |-> NoPickTx]
PickIdle ==
    /\ cmdline = <<>> /\ txSource = NoSource /\ pickTx = NoPickTx
    /\ inputRead = FALSE

EncIdle == encValue = <<>> /\ encHex = <<>>
ScriptIdle == bytes = <<>> /\ pubKeyBytes = <<>>
MonitorIdle == pollRate = 5 /\ trace = <<>>

ToolIdle ==
    /\ EncIdle /\ ScriptIdle /\ MonitorIdle

Idle ==
    /\ reply = NoReply /\ utxos = <<>> /\ selected = <<>> /\ tx = NoTx
    /\ totalInput = 0 /\ fee = 0 /\ err = NoErr /\ stdout = <<>>

Init ==
    /\ pc = "start"
    /\ wif \in Wifs /\ address \in Addresses
    /\ sats \in Amounts /\ split \in Splits /\ feePerKb \in Rates
    /\ Idle
    /\ numInputs = 0 /\ numOutputs = 0 /\ feeResult = 0
    /\ PickIdle /\ ToolIdle

\* Variant: the error is recorded and the command goes on to print.
Fail_Proceed(e) ==
    /\ pc' = "built"
    /\ err' = e

Fail(e) ==
    /\ pc' = "failed"
    /\ err' = e

\* Variant: the split count is not checked.
validateFlags_NoSplitCheck ==
    IF wif = "" \/ address = "" THEN Err("--wif and --address are required")
    ELSE NoErr

validateFlags ==
    IF wif = "" \/ address = "" THEN Err("--wif and --address are required")
    ELSE IF split < 1 THEN Err("--split must be at least 1")
    ELSE IF split > 1 /\ sats = 0 THEN Err("--split requires a specific amount")
    ELSE NoErr

ValidateFlags ==
    /\ pc = "start"
    /\ IF validateFlags # NoErr
       THEN Fail(validateFlags) /\ stdout' = Append(stdout, HelpText)
       ELSE pc' = "validated" /\ UNCHANGED <<err, stdout>>
    /\ UNCHANGED <<flagVars, reply, utxos, selected, tx, totalInput, fee, feeVars, pickVars, toolVars>>

DeriveKeyAndAddress ==
    /\ pc = "validated"
    /\ IF wif = "bad"
       THEN Fail(Err("failed to parse WIF"))
       ELSE pc' = "derived" /\ err' = err
    /\ UNCHANGED <<flagVars, reply, utxos, selected, tx, totalInput, fee, stdout, feeVars, pickVars, toolVars>>

FetchUTXOs ==
    /\ pc = "derived"
    /\ \E r \in Replies :
         LET got == fetchUTXOs(r)
         IN  /\ reply' = r
             /\ IF got.ok
                THEN pc' = "fetched" /\ utxos' = got.utxos /\ err' = err
                ELSE Fail(got.err) /\ utxos' = utxos
    /\ UNCHANGED <<flagVars, selected, tx, totalInput, fee, stdout, feeVars, pickVars, toolVars>>

SelectAppropriateUTXOs ==
    /\ pc = "fetched"
    /\ IF sats = 0
       THEN pc' = "selected" /\ selected' = utxos /\ utxos' = utxos /\ err' = err
       ELSE LET r == selectUTXOs(utxos, sats, feePerKb)
            IN  /\ utxos' = r.caller
                /\ IF r.ok
                   THEN pc' = "selected" /\ selected' = r.selected /\ err' = err
                   ELSE Fail(r.err) /\ selected' = selected
    /\ UNCHANGED <<flagVars, reply, tx, totalInput, fee, stdout, feeVars, pickVars, toolVars>>

BuildTransaction ==
    /\ pc = "selected"
    /\ \E lib \in {"ok", "add input fails", "sign fails"} :
         LET r == buildTransaction(sourceAddress, address, selected, sats, split,
                                   feePerKb, lib)
         IN  /\ tx' = r.tx /\ totalInput' = r.totalInput /\ fee' = r.fee
             /\ IF r.ok THEN pc' = "built" /\ err' = err ELSE Fail(r.err)
    /\ UNCHANGED <<flagVars, reply, utxos, selected, stdout, feeVars, pickVars, toolVars>>

Emit ==
    /\ pc = "built"
    /\ stdout' = Append(stdout, tx)
    /\ pc' = "done"
    /\ UNCHANGED <<flagVars, reply, utxos, selected, tx, totalInput, fee, err, feeVars, pickVars, toolVars>>

Next ==
    \/ ValidateFlags
    \/ DeriveKeyAndAddress
    \/ FetchUTXOs
    \/ SelectAppropriateUTXOs
    \/ BuildTransaction
    \/ Emit

Spec == Init /\ [][Next]_vars

(***************************************************************************)
(* selectUTXOs called on its own, as the unit tests call it.               *)
(***************************************************************************)
InitSelect ==
    /\ pc = "select_call"
    /\ wif = "L1" /\ address = "1Dest" /\ split = 1
    /\ sats \in SelTargets /\ feePerKb \in SelRates
    /\ reply = NoReply /\ utxos \in SelLists /\ selected = <<>> /\ tx = NoTx
    /\ totalInput = 0 /\ fee = 0 /\ err = NoErr /\ stdout = <<>>
    /\ numInputs = 0 /\ numOutputs = 0 /\ feeResult = 0
    /\ PickIdle /\ ToolIdle

CallSelectUTXOs ==
    /\ pc = "select_call"
    /\ LET r == selectUTXOs(utxos, sats, feePerKb)
       IN  /\ utxos' = r.caller
           /\ selected' = r.selected
           /\ err' = r.err
           /\ pc' = IF r.ok THEN "select_ok" ELSE "select_err"
    /\ UNCHANGED <<flagVars, reply, tx, totalInput, fee, stdout, feeVars, pickVars, toolVars>>

NextSelect == CallSelectUTXOs

SpecSelect == InitSelect /\ [][NextSelect]_vars

(***************************************************************************)
(* buildTransaction called on its own, with any amount and output count.   *)
(***************************************************************************)
InitBuild ==
    /\ pc = "selected"
    /\ wif = "L1" /\ address = "1Dest"
    /\ sats \in BuildAmounts /\ split \in Splits /\ feePerKb \in Rates
    /\ reply = NoReply /\ utxos = <<>> /\ selected \in BuildLists /\ tx = NoTx
    /\ totalInput = 0 /\ fee = 0 /\ err = NoErr /\ stdout = <<>>
    /\ numInputs = 0 /\ numOutputs = 0 /\ feeResult = 0
    /\ PickIdle /\ ToolIdle

NextBuild == BuildTransaction

SpecBuild == InitBuild /\ [][NextBuild]_vars

(***************************************************************************)
(* selectUTXOs called on lists with equal values, short and long.  The     *)
(* UTXOs at the positions in T carry TieValue, the others distinct smaller *)
(* values; TxPos is the position in the caller's list.                     *)
(***************************************************************************)
TieValue == 5000
TieList(n, T) ==
    [i \in 1..n |-> [TxHash |-> "u", TxPos |-> i,
                     Value |-> IF i \in T THEN TieValue ELSE 100 * i]]
TieSets(n) == {T \in SUBSET (1..n) : Cardinality(T) \in {2, 3}}
TieLists ==
    UNION {{TieList(n, T) : T \in TieSets(n)} : n \in {3, MaxSortLen}}
TieTargets == {4000, 9000}

InitSort ==
    /\ pc = "select_call"
    /\ wif = "L1" /\ address = "1Dest" /\ split = 1
    /\ sats \in TieTargets /\ feePerKb = 100
    /\ reply = NoReply /\ utxos \in TieLists /\ selected = <<>> /\ tx = NoTx
    /\ totalInput = 0 /\ fee = 0 /\ err = NoErr /\ stdout = <<>>
    /\ numInputs = 0 /\ numOutputs = 0 /\ feeResult = 0
    /\ PickIdle /\ ToolIdle

CallSelectUTXOsAnyLength ==
    /\ pc = "select_call"
    /\ IF Len(utxos) = 0
       THEN /\ selected' = <<>> /\ err' = Err("no UTXOs available")
            /\ pc' = "select_err"
       ELSE \E sorted \in sortSliceOutcomes(sortedCopy(utxos).caller) :
              LET r == selectLoop(sorted, 1, 0, sats, feePerKb)
              IN  /\ selected' = r.selected
                  /\ err' = r.err
                  /\ pc' = IF r.ok THEN "select_ok" ELSE "select_err"
    /\ utxos' = sortedCopy(utxos).caller
    /\ UNCHANGED <<flagVars, reply, tx, totalInput, fee, stdout, feeVars, pickVars,
                   toolVars>>

NextSort == CallSelectUTXOsAnyLength

SpecSort == InitSort /\ [][NextSort]_vars

(***************************************************************************)
(* calculateFee called on its own.                                         *)
(***************************************************************************)
InitFee ==
    /\ pc = "fee_call"
    /\ wif = "L1" /\ address = "1Dest" /\ split = 1 /\ sats = 0
    /\ feePerKb \in FeeRates
    /\ Idle
    /\ numInputs \in 0..MaxFeeInputs /\ numOutputs \in 0..MaxFeeOutputs
    /\ feeResult = 0
    /\ PickIdle /\ ToolIdle

CallCalculateFee ==
    /\ pc = "fee_call"
    /\ feeResult' = calculateFee(numInputs, numOutputs, feePerKb)
    /\ pc' = "fee_ret"
    /\ UNCHANGED <<flagVars, carveVars, numInputs, numOutputs, pickVars, toolVars>>

NextFee == CallCalculateFee

SpecFee == InitFee /\ [][NextFee]_vars

(***************************************************************************)
(* The pick command.  A command line is the sequence of selector flags as  *)
(* typed, each [flag, value]; the flag library appends the value of every  *)
(* occurrence of an index flag to that flag's slice and sets the variable  *)
(* of a boolean flag.  A line written to standard output is [field, idx],  *)
(* standing for the hex string of that field of the transaction.           *)
(***************************************************************************)
OutputFlags == {"output", "output-script", "output-value"}
InputFlags == {"input", "input-script", "input-prevtxid", "input-prevout",
               "input-sequence"}
BoolFlags == {"version", "locktime", "txid"}
\* an index below the range, the first index, and the count of the largest
\* transaction (its first index above the range; inside the range of none)
Indices == {-1, 0, MaxCount}
FlagOccurrences ==
    {[flag |-> f, value |-> i] : f \in OutputFlags \cup InputFlags, i \in Indices}
    \cup {[flag |-> f, value |-> 0] : f \in BoolFlags}
CmdLines == SeqsUpTo(FlagOccurrences, MaxFlags)

Items(n) == [i \in 1..n |-> i - 1]
TxSources ==
    {[kind |-> k, tx |-> NoPickTx] :
        k \in {"unreadable", "empty", "not hex", "odd hex", "unparsable"}}
    \cup {[kind |-> "tx",
           tx |-> [parsed |-> TRUE, Inputs |-> Items(n), Outputs |-> Items(m)]] :
            n \in {0, MaxCount}, m \in {0, MaxCount}}

\* the slice of an index flag, the variable of a boolean flag
RECURSIVE flagValues(_, _)
flagValues(line, f) ==
    IF line = <<>> THEN <<>>
    ELSE IF Head(line).flag = f
         THEN <<Head(line).value>> \o flagValues(Tail(line), f)
         ELSE flagValues(Tail(line), f)

flagSet(line, f) == \E k \in 1..Len(line) : line[k].flag = f

outputs == flagValues(cmdline, "output")
outputScripts == flagValues(cmdline, "output-script")
outputValues == flagValues(cmdline, "output-value")
inputs == flagValues(cmdline, "input")
inputScripts == flagValues(cmdline, "input-script")
inputPrevTxIDs == flagValues(cmdline, "input-prevtxid")
inputPrevOuts == flagValues(cmdline, "input-prevout")
inputSequences == flagValues(cmdline, "input-sequence")
getVersion == flagSet(cmdline, "version")
getLocktime == flagSet(cmdline, "locktime")
getTxID == flagSet(cmdline, "txid")

\* Variant: a selector is taken to be present whatever the command line.
hasAnySelector_Always == TRUE

hasAnySelector ==
    \/ Len(outputs) > 0
    \/ Len(outputScripts) > 0
    \/ Len(outputValues) > 0
    \/ Len(inputs) > 0
    \/ Len(inputScripts) > 0
    \/ Len(inputPrevTxIDs) > 0
    \/ Len(inputPrevOuts) > 0
    \/ Len(inputSequences) > 0
    \/ getVersion
    \/ getLocktime
    \/ getTxID

(***************************************************************************)
(* The getters.  Each checks its index against the number of outputs or    *)
(* inputs and reports the range 0..len-1 on failure.  (getInputPrevTxID    *)
(* also fails on an input without a previous txid; an input parsed from    *)
(* bytes always has one.)                                                  *)
(***************************************************************************)
RangeErr(what, idx, n) ==
    [kind |-> "index out of range", what |-> what, idx |-> idx, lo |-> 0,
     hi |-> n - 1]

\* Variant: an index equal to the count is accepted.
outOfRange_OffByOne(idx, n) == idx < 0 \/ idx > n

outOfRange(idx, n) == idx < 0 \/ idx >= n

getOutputField(field, t, idx) ==
    IF outOfRange(idx, Len(t.Outputs))
    THEN [ok |-> FALSE, line |-> Line("", 0),
          err |-> RangeErr("output", idx, Len(t.Outputs))]
    ELSE [ok |-> TRUE, line |-> Line(field, idx), err |-> NoErr]

getInputField(field, t, idx) ==
    IF outOfRange(idx, Len(t.Inputs))
    THEN [ok |-> FALSE, line |-> Line("", 0),
          err |-> RangeErr("input", idx, Len(t.Inputs))]
    ELSE [ok |-> TRUE, line |-> Line(field, idx), err |-> NoErr]

getSerializedOutput(t, idx) == getOutputField("output", t, idx)
getOutputScript(t, idx) == getOutputField("output-script", t, idx)
getOutputValue(t, idx) == getOutputField("output-value", t, idx)
getSerializedInput(t, idx) == getInputField("input", t, idx)
getInputScript(t, idx) == getInputField("input-script", t, idx)
getInputPrevTxID(t, idx) == getInputField("input-prevtxid", t, idx)
getInputPrevOut(t, idx) == getInputField("input-prevout", t, idx)
getInputSequence(t, idx) == getInputField("input-sequence", t, idx)

get(field, t, idx) ==
    CASE field = "output" -> getSerializedOutput(t, idx)
      [] field = "output-script" -> getOutputScript(t, idx)
      [] field = "output-value" -> getOutputValue(t, idx)
      [] field = "input" -> getSerializedInput(t, idx)
      [] field = "input-script" -> getInputScript(t, idx)
      [] field = "input-prevtxid" -> getInputPrevTxID(t, idx)
      [] field = "input-prevout" -> getInputPrevOut(t, idx)
      [] field = "input-sequence" -> getInputSequence(t, idx)

(***************************************************************************)
(* extractAndOutput: version, txid, one loop per index flag in the order   *)
(* the code has them, locktime.  The first failing getter ends it; what    *)
(* was printed before stays printed.                                       *)
(***************************************************************************)
RECURSIVE emitEach(_, _, _, _)
emitEach(field, idxs, t, out) ==
    IF idxs = <<>> THEN [ok |-> TRUE, lines |-> out, err |-> NoErr]
    ELSE LET r == get(field, t, Head(idxs))
         IN  IF ~r.ok
             THEN [ok |-> FALSE, lines |-> out, err |-> r.err]
             ELSE emitEach(field, Tail(idxs), t, Append(out, r.line))

Loops ==
    << <<"output", outputs>>, <<"output-script", outputScripts>>,
       <<"output-value", outputValues>>, <<"input", inputs>>,
       <<"input-script", inputScripts>>, <<"input-prevtxid", inputPrevTxIDs>>,
       <<"input-prevout", inputPrevOuts>>, <<"input-sequence", inputSequences>> >>

\* Variant: a failing loop does not end the extraction; the later loops still
\* print and the first error is returned at the end.
RECURSIVE runLoops_KeepGoing(_, _, _)
runLoops_KeepGoing(k, t, out) ==
    IF k > Len(Loops) THEN [ok |-> TRUE, lines |-> out, err |-> NoErr]
    ELSE LET r == emitEach(Loops[k][1], Loops[k][2], t, out)
             rest == runLoops_KeepGoing(k + 1, t, r.lines)
         IN  IF ~r.ok THEN [ok |-> FALSE, lines |-> rest.lines, err |-> r.err]
             ELSE rest

RECURSIVE runLoops(_, _, _)
runLoops(k, t, out) ==
    IF k > Len(Loops) THEN [ok |-> TRUE, lines |-> out, err |-> NoErr]
    ELSE LET r == emitEach(Loops[k][1], Loops[k][2], t, out)
         IN  IF ~r.ok THEN r ELSE runLoops(k + 1, t, r.lines)

\* Variant: the selectors are served in the order they were typed.
RECURSIVE inTypedOrder(_, _, _)
inTypedOrder(line, t, out) ==
    IF line = <<>> THEN [ok |-> TRUE, lines |-> out, err |-> NoErr]
    ELSE IF Head(line).flag \in BoolFlags
    THEN inTypedOrder(Tail(line), t, Append(out, Line(Head(line).flag, 0)))
    ELSE LET r == get(Head(line).flag, t, Head(line).value)
         IN  IF ~r.ok
             THEN [ok |-> FALSE, lines |-> out, err |-> r.err]
             ELSE inTypedOrder(Tail(line), t, Append(out, r.line))

extractAndOutput_TypedOrder(t) == inTypedOrder(cmdline, t, <<>>)

extractAndOutput(t) ==
    LET first == (IF getVersion THEN <<Line("version", 0)>> ELSE <<>>)
                 \o (IF getTxID THEN <<Line("txid", 0)>> ELSE <<>>)
        r == runLoops(1, t, first)
    IN  IF ~r.ok THEN r
        ELSE [ok |-> TRUE,
              lines |-> r.lines
                        \o (IF getLocktime THEN <<Line("locktime", 0)>> ELSE <<>>),
              err |-> NoErr]

(***************************************************************************)
(* run, one action per step.                                               *)
(***************************************************************************)
InitPick ==
    /\ pc = "pick_start"
    /\ wif = "L1" /\ address = "1Dest" /\ split = 1 /\ sats = 0 /\ feePerKb = 100
    /\ Idle
    /\ numInputs = 0 /\ numOutputs = 0 /\ feeResult = 0
    /\ cmdline \in CmdLines /\ txSource \in TxSources
    /\ pickTx = NoPickTx /\ inputRead = FALSE
    /\ ToolIdle

CheckSelector ==
    /\ pc = "pick_start"
    /\ IF ~hasAnySelector
       THEN /\ stdout' = Append(stdout, HelpText)
            /\ Fail(Err("no selector specified"))
       ELSE pc' = "pick_selector" /\ UNCHANGED <<stdout, err>>
    /\ UNCHANGED <<flagVars, reply, utxos, selected, tx, totalInput, fee, feeVars,
                   pickVars, toolVars>>

GetTransactionHex ==
    /\ pc = "pick_selector"
    /\ inputRead' = TRUE
    /\ IF txSource.kind = "unreadable"
       THEN Fail(Err("reading input")) /\ stdout' = stdout
       ELSE IF txSource.kind = "empty"
       THEN /\ stdout' = Append(stdout, HelpText)
            /\ Fail(Err("no transaction provided"))
       ELSE pc' = "pick_read" /\ UNCHANGED <<stdout, err>>
    /\ UNCHANGED <<flagVars, reply, utxos, selected, tx, totalInput, fee, feeVars,
                   cmdline, txSource, pickTx, toolVars>>

ParseTransaction ==
    /\ pc = "pick_read"
    /\ IF txSource.kind = "not hex"
       THEN Fail(Err("input is not a valid hex string")) /\ pickTx' = pickTx
       ELSE IF txSource.kind = "odd hex"
       THEN Fail(Err("decoding hex")) /\ pickTx' = pickTx
       ELSE IF txSource.kind = "unparsable"
       THEN Fail(Err("parsing transaction")) /\ pickTx' = pickTx
       ELSE pc' = "pick_parsed" /\ pickTx' = txSource.tx /\ err' = err
    /\ UNCHANGED <<flagVars, reply, utxos, selected, tx, totalInput, fee, stdout,
                   feeVars, cmdline, txSource, inputRead, toolVars>>

ExtractAndOutput ==
    /\ pc = "pick_parsed"
    /\ LET r == extractAndOutput(pickTx)
       IN  /\ stdout' = stdout \o r.lines
           /\ IF r.ok THEN pc' = "pick_done" /\ err' = err ELSE Fail(r.err)
    /\ UNCHANGED <<flagVars, reply, utxos, selected, tx, totalInput, fee, feeVars,
                   pickVars, toolVars>>

NextPick ==
    \/ CheckSelector
    \/ GetTransactionHex
    \/ ParseTransaction
    \/ ExtractAndOutput

SpecPick == InitPick /\ [][NextPick]_vars

(***************************************************************************)
(* encodeUint32LE / encodeUint64LE.  A uint32 is held as two, a uint64 as  *)
(* four 16-bit limbs, least significant first (the checker's integers do   *)
(* not reach 2^32); a hex string is the sequence of its characters.        *)
(***************************************************************************)
LimbBits == 16
Limb == 2^LimbBits

\* byte(v >> (8 * k))
ByteOf(v, k) == (v[(k \div 2) + 1] \div (256^(k % 2))) % 256

\* Variant: most significant byte first.
PutUint32_BigEndian(v) == [k \in 1..4 |-> ByteOf(v, 4 - k)]

\* binary.LittleEndian.PutUint32 / PutUint64 into a fresh buffer
PutUint32(v) == [k \in 1..4 |-> ByteOf(v, k - 1)]
PutUint64(v) == [k \in 1..8 |-> ByteOf(v, k - 1)]

hextable == <<"0", "1", "2", "3", "4", "5", "6", "7",
              "8", "9", "a", "b", "c", "d", "e", "f">>

RECURSIVE EncodeToString(_)
EncodeToString(buf) ==
    IF buf = <<>> THEN <<>>
    ELSE <<hextable[(Head(buf) \div 16) + 1], hextable[(Head(buf) % 16) + 1]>>
         \o EncodeToString(Tail(buf))

encodeUint32LE(v) == EncodeToString(PutUint32(v))
encodeUint64LE(v) == EncodeToString(PutUint64(v))

LimbSamples == {0, 1, 255, 256, 4660, 43981, Limb - 1}
EncValues == [1..2 -> LimbSamples] \cup [1..4 -> LimbSamples]

InitEncode ==
    /\ pc = "enc_call"
    /\ wif = "L1" /\ address = "1Dest" /\ split = 1 /\ sats = 0 /\ feePerKb = 100
    /\ Idle
    /\ numInputs = 0 /\ numOutputs = 0 /\ feeResult = 0
    /\ PickIdle
    /\ encValue \in EncValues /\ encHex = <<>>
    /\ ScriptIdle /\ MonitorIdle

CallEncodeUint32LE ==
    /\ pc = "enc_call"
    /\ Len(encValue) = 2
    /\ encHex' = encodeUint32LE(encValue)
    /\ pc' = "enc_ret"
    /\ UNCHANGED <<flagVars, carveVars, feeVars, pickVars, encValue, scriptVars,
                   monitorVars>>

CallEncodeUint64LE ==
    /\ pc = "enc_call"
    /\ Len(encValue) = 4
    /\ encHex' = encodeUint64LE(encValue)
    /\ pc' = "enc_ret"
    /\ UNCHANGED <<flagVars, carveVars, feeVars, pickVars, encValue, scriptVars,
                   monitorVars>>

NextEncode ==
    \/ CallEncodeUint32LE
    \/ CallEncodeUint64LE

SpecEncode == InitEncode /\ [][NextEncode]_vars

(***************************************************************************)
(* prettytx: extractPublicKeyFromScript, called on an unlocking script.    *)
(* A script is a sequence of byte values; i is the 0-based index of the    *)
(* source.                                                                 *)
(***************************************************************************)
OP_PUSHDATA1 == 76
maxDirectPush == 75

At(b, i) == b[i + 1]
Slice(b, i, j) == SubSeq(b, i + 1, j)

\* Variant: the declared length is not compared with the remaining bytes.
pushFits_Unchecked(b, i, length) == TRUE

\* the guard "if i+length > len(bytes) { break }", negated
pushFits(b, i, length) == i + length <= Len(b)

isKeyLength(length) == length = 33 \/ length = 65

\* The result of the function: beyond is TRUE when an index or a slice bound
\* lies outside the buffer (a run-time panic, or bytes that are not part of
\* the script).
ScriptResult(beyond, data) == [beyond |-> beyond, pubKeyBytes |-> data]

\* data := bytes[i:i+length]; i += length; keep data when it has key length
takePush(b, i, length, pub) ==
    [beyond |-> i + length > Len(b),
     i |-> i + length,
     pubKeyBytes |-> IF isKeyLength(length) /\ i + length <= Len(b)
                     THEN Slice(b, i, i + length) ELSE pub]

RECURSIVE scriptLoop(_, _, _)
scriptLoop(b, i, pub) ==
    IF ~(i < Len(b)) THEN ScriptResult(FALSE, pub)
    ELSE LET opcode == At(b, i)
             i1 == i + 1
         IN  IF opcode > 0 /\ opcode <= maxDirectPush
             THEN IF ~pushFits(b, i1, opcode) THEN ScriptResult(FALSE, pub)
                  ELSE LET r == takePush(b, i1, opcode, pub)
                       IN  IF r.beyond THEN ScriptResult(TRUE, <<>>)
                           ELSE scriptLoop(b, r.i, r.pubKeyBytes)
             ELSE IF opcode = OP_PUSHDATA1
             THEN IF i1 >= Len(b) THEN ScriptResult(FALSE, pub)
                  ELSE LET length == At(b, i1)
                           i2 == i1 + 1
                       IN  IF ~pushFits(b, i2, length) THEN ScriptResult(FALSE, pub)
                           ELSE LET r == takePush(b, i2, length, pub)
                                IN  IF r.beyond THEN ScriptResult(TRUE, <<>>)
                                    ELSE scriptLoop(b, r.i, r.pubKeyBytes)
             ELSE scriptLoop(b, i1, pub)

extractPublicKeyFromScript(b) == scriptLoop(b, 0, <<>>)

\* Script pieces: two compressed keys, an uncompressed key, a 72-byte
\* signature, and single opcodes.
MaxPieces == 2
MaxShort == 3
KeyA == [k \in 1..33 |-> IF k = 1 THEN 2 ELSE k]
KeyB == [k \in 1..33 |-> IF k = 1 THEN 3 ELSE 100 + k]
KeyU == [k \in 1..65 |-> IF k = 1 THEN 4 ELSE 150 + k]
Sig == [k \in 1..72 |-> IF k = 1 THEN 48 ELSE 200]
Pieces ==
    { <<33>> \o KeyA,
      <<65>> \o KeyU,
      <<OP_PUSHDATA1, 33>> \o KeyB,
      <<72>> \o Sig,
      <<172>>,
      <<0>> }
RECURSIVE Concat(_)
Concat(ss) == IF ss = <<>> THEN <<>> ELSE Head(ss) \o Concat(Tail(ss))
Prefixes(b) == {SubSeq(b, 1, n) : n \in 0..Len(b)}
ShortBytes == {0, 1, 2, 33, OP_PUSHDATA1, 77, 255}
Scripts ==
    UNION {Prefixes(Concat(ss)) : ss \in SeqsUpTo(Pieces, MaxPieces)}
    \cup SeqsUpTo(ShortBytes, MaxShort)

InitScript ==
    /\ pc = "script_call"
    /\ wif = "L1" /\ address = "1Dest" /\ split = 1 /\ sats = 0 /\ feePerKb = 100
    /\ Idle
    /\ numInputs = 0 /\ numOutputs = 0 /\ feeResult = 0
    /\ PickIdle /\ EncIdle /\ MonitorIdle
    /\ bytes \in Scripts /\ pubKeyBytes = <<>>

CallExtractPublicKeyFromScript ==
    /\ pc = "script_call"
    /\ LET r == extractPublicKeyFromScript(bytes)
       IN  /\ pubKeyBytes' = r.pubKeyBytes
           /\ pc' = IF r.beyond THEN "script_beyond" ELSE "script_ret"
    /\ UNCHANGED <<flagVars, carveVars, feeVars, pickVars, encVars, bytes,
                   monitorVars>>

NextScript == CallExtractPublicKeyFromScript

SpecScript == InitScript /\ [][NextScript]_vars

(***************************************************************************)
(* Transaction status monitoring: arc.IsTransactionFinal and the           *)
(* monitorTransaction loops of txstatus and broadcast.  trace records, in  *)
(* order, every status query with its outcome and every receive from the   *)
(* ticker channel.                                                         *)
(***************************************************************************)
StatusReceived == "RECEIVED"
StatusStored == "STORED"
StatusAnnouncedToNetwork == "ANNOUNCED_TO_NETWORK"
StatusSeenOnNetwork == "SEEN_ON_NETWORK"
StatusSeenByNetwork == "SEEN_BY_NETWORK"
StatusMined == "MINED"
StatusRejected == "REJECTED"
StatusDoubleSpend == "DOUBLE_SPEND_ATTEMPTED"

\* Variant: a transaction seen on the network counts as final.
IsTransactionFinal_Seen(status) ==
    status \in {StatusMined, StatusRejected, StatusDoubleSpend, StatusSeenOnNetwork}

IsTransactionFinal(status) ==
    status \in {StatusMined, StatusRejected, StatusDoubleSpend}

MaxQueries == 3
Statuses ==
    {StatusReceived, StatusStored, StatusAnnouncedToNetwork, StatusSeenOnNetwork,
     StatusSeenByNetwork, StatusMined, StatusRejected, StatusDoubleSpend,
     "UNKNOWN", "", "mined"}
\* what GetTransactionStatus returns: a status, or an error
QueryOutcomes ==
    {[ok |-> TRUE, status |-> st] : st \in Statuses}
    \cup {[ok |-> FALSE, status |-> ""]}
PollRates == {0, 1, 5}

QueryEvent(o) == [kind |-> "query", ok |-> o.ok, status |-> o.status]
WaitEvent == [kind |-> "wait", ok |-> TRUE, status |-> ""]
StatusLine(st) == [field |-> "Status", status |-> st]
QueriesIn(t) == Len(SelectSeq(t, LAMBDA e : e.kind = "query"))

InitMonitor ==
    /\ pc = "mon_start"
    /\ wif = "L1" /\ address = "1Dest" /\ split = 1 /\ sats = 0 /\ feePerKb = 100
    /\ Idle
    /\ numInputs = 0 /\ numOutputs = 0 /\ feeResult = 0
    /\ PickIdle /\ EncIdle /\ ScriptIdle
    /\ pollRate \in PollRates /\ trace = <<>>

\* txstatus: the initial check, and time.NewTicker when monitoring goes on
\* (NewTicker panics on a non-positive interval)
InitialCheck ==
    /\ pc = "mon_start"
    /\ \E o \in QueryOutcomes :
          /\ trace' = Append(trace, QueryEvent(o))
          /\ IF ~o.ok
             THEN /\ pc' = "mon_err"
                  /\ err' = Err("getting transaction status")
                  /\ stdout' = stdout
             ELSE /\ stdout' = Append(stdout, StatusLine(o.status))
                  /\ err' = err
                  /\ pc' = IF IsTransactionFinal(o.status) THEN "mon_done"
                           ELSE IF pollRate <= 0 THEN "mon_panic"
                           ELSE "mon_wait"
    /\ UNCHANGED <<flagVars, reply, utxos, selected, tx, totalInput, fee, feeVars,
                   pickVars, encVars, scriptVars, pollRate>>

\* <-ticker.C
Tick ==
    /\ pc = "mon_wait"
    /\ trace' = Append(trace, WaitEvent)
    /\ pc' = "mon_poll"
    /\ UNCHANGED <<flagVars, carveVars, feeVars, pickVars, encVars, scriptVars,
                   pollRate>>

\* the rest of one iteration: query, report, break on a final status
Poll ==
    /\ pc = "mon_poll"
    /\ QueriesIn(trace) < MaxQueries
    /\ \E o \in QueryOutcomes :
          /\ trace' = Append(trace, QueryEvent(o))
          /\ IF ~o.ok
             THEN /\ pc' = "mon_wait"
                  /\ stdout' = stdout
             ELSE /\ stdout' = Append(stdout, StatusLine(o.status))
                  /\ pc' = IF IsTransactionFinal(o.status) THEN "mon_done"
                           ELSE "mon_wait"
    /\ UNCHANGED <<flagVars, reply, utxos, selected, tx, totalInput, fee, err,
                   feeVars, pickVars, encVars, scriptVars, pollRate>>

NextMonitor ==
    \/ InitialCheck
    \/ Tick
    \/ Poll

SpecMonitor == InitMonitor /\ [][NextMonitor]_vars

InitBroadcast ==
    /\ pc = "bmon_start"
    /\ wif = "L1" /\ address = "1Dest" /\ split = 1 /\ sats = 0 /\ feePerKb = 100
    /\ Idle
    /\ numInputs = 0 /\ numOutputs = 0 /\ feeResult = 0
    /\ PickIdle /\ EncIdle /\ ScriptIdle
    /\ pollRate \in PollRates /\ trace = <<>>

\* broadcast: time.NewTicker before the loop
StartTicker ==
    /\ pc = "bmon_start"
    /\ pc' = IF pollRate <= 0 THEN "mon_panic" ELSE "bmon_query"
    /\ UNCHANGED <<flagVars, carveVars, feeVars, pickVars, toolVars>>

\* one iteration up to the receive from the ticker: a failed query logs and
\* continues straight to the next query
BroadcastPoll ==
    /\ pc = "bmon_query"
    /\ QueriesIn(trace) < MaxQueries
    /\ \E o \in QueryOutcomes :
          /\ trace' = Append(trace, QueryEvent(o))
          /\ IF ~o.ok
             THEN /\ pc' = "bmon_query"
                  /\ stdout' = stdout
             ELSE /\ stdout' = Append(stdout, StatusLine(o.status))
                  /\ pc' = IF IsTransactionFinal(o.status) THEN "mon_done"
                           ELSE "bmon_wait"
    /\ UNCHANGED <<flagVars, reply, utxos, selected, tx, totalInput, fee, err,
                   feeVars, pickVars, encVars, scriptVars, pollRate>>

BroadcastTick ==
    /\ pc = "bmon_wait"
    /\ trace' = Append(trace, WaitEvent)
    /\ pc' = "bmon_query"
    /\ UNCHANGED <<flagVars, carveVars, feeVars, pickVars, encVars, scriptVars,
                   pollRate>>

NextBroadcast ==
    \/ StartTicker
    \/ BroadcastPoll
    \/ BroadcastTick

SpecBroadcast == InitBroadcast /\ [][NextBroadcast]_vars

(***************************************************************************)
(* Properties.                                                             *)
(***************************************************************************)
Built == pc \in {"built", "done"}
Range(s) == {s[i] : i \in 1..Len(s)}

\* C1 (Conservation): for every successful Build reached through the carve
\* workflow the sum of the input values equals the sum of the output values
\* plus the fee of the change step, in non-wrapping arithmetic.
Conservation ==
    Built => SumValues(tx.Inputs) = SumSatoshis(tx.Outputs) + fee

\* C2 (Selection sufficiency): on a non-empty list, a successful Select
\* returns UTXOs whose true sum is >= targetAmount + EstimateFee(k, 2, rate);
\* a failed one returns no selection.
SelectionSufficiency ==
    /\ (pc = "select_ok" /\ utxos # <<>>) =>
           SumValues(selected) >= sats + calculateFee(Len(selected), 2, feePerKb)
    /\ pc = "select_err" => selected = <<>>

\* C3 (Fee floor): calculateFee never returns less than 100, whatever the
\* counts and the rate, also when size * rate wraps.
FeeFloor ==
    pc = "fee_ret" => feeResult >= 100

FeeFloorWitness ==
    /\ pc = "fee_ret"
    /\ numInputs = 1 /\ numOutputs = 1 /\ feePerKb = WrapRate
    /\ (numInputs * 148 + numOutputs * 34 + 10) * feePerKb >= Word
    /\ feeResult = 100

\* C4 (Fee formula): calculateFee(numInputs, numOutputs, feePerKB) equals
\* max(100, floor((numInputs*148 + numOutputs*34 + 10) * feePerKB / 1000)).
FeeFormula ==
    pc = "fee_ret" =>
        feeResult = Max(100, ((numInputs * 148 + numOutputs * 34 + 10) * feePerKb)
                             \div 1000)

IsExample2 ==
    /\ Len(utxos) = 3
    /\ \A i \in 1..3 : utxos[i].Value = 1000
    /\ sats = 2500
    /\ feePerKb = 1000

Example2Claimed ==
    (IsExample2 /\ pc \in {"select_ok", "select_err"}) =>
        /\ pc = "select_ok"
        /\ Len(selected) = 3
        /\ Range(selected) = Range(utxos)
        /\ SumValues(selected) >= 2500 + calculateFee(3, 2, 1000)

\* C6 as amended: on that input Select fails with insufficient funds
\* (3000 < 2500 + 522) and returns no UTXOs.
Example2Actual ==
    (IsExample2 /\ pc \in {"select_ok", "select_err"}) =>
        /\ pc = "select_err"
        /\ selected = <<>>
        /\ err.kind = "insufficient funds"
        /\ err.have = 3000
        /\ err.fee = 522
        /\ err.need = 3022

Example2Witness ==
    IsExample2 /\ pc = "select_err" /\ err.have = 3000

\* C8 (Selection non-mutation): a call of Select, successful or not, leaves
\* the caller's UTXO slice as it was: same length, elements and order.
SelectNonMutation ==
    [][pc = "select_call" => utxos' = utxos]_vars

SelectNonMutationWitness ==
    /\ pc = "select_ok"
    /\ Len(utxos) = 3
    /\ utxos # SortSlice(utxos)
    /\ Len(selected) = 1

\* C9 (Remainder placement): for amount A > 0 and split count N >= 1 the
\* built transaction starts with exactly N payment outputs to the destination,
\* the first N-1 carrying floor(A/N) and the last floor(A/N) + (A mod N),
\* which sum to A; anything after them is the single change output.
RemainderPlacement ==
    (Built /\ sats > 0 /\ split >= 1) =>
        LET outs == tx.Outputs
        IN  /\ Len(outs) \in {split, split + 1}
            /\ \A i \in 1..split : outs[i].to = address
            /\ \A i \in 1..(split - 1) : outs[i].Satoshis = sats \div split
            /\ outs[split].Satoshis = (sats \div split) + (sats % split)
            /\ SumSatoshis(SubSeq(outs, 1, split)) = sats
            /\ Len(outs) = split + 1 => outs[split + 1].to = sourceAddress

RemainderPlacementWitness ==
    /\ Built
    /\ sats = 11
    /\ split = 3
    /\ tx.Outputs[1].Satoshis = 3
    /\ tx.Outputs[2].Satoshis = 3
    /\ tx.Outputs[3].Satoshis = 5

\* C10 (No dust floor): whenever the change computed in Build,
\* totalInput - amount - fee in uint64, is nonzero, a change output carrying
\* exactly that value follows the payment outputs, however small; when it is
\* zero there is no change output.
ComputedChange == SubWord(SubWord(totalInput, sats), fee)
PaymentCount == IF sats > 0 THEN split ELSE 0

SendAll ==
    /\ (sats = 0 /\ pc \in {"selected", "built", "done"}) => selected = utxos
    /\ (sats = 0 /\ Built) =>
           /\ tx.Inputs = utxos
           /\ Len(tx.Outputs) = 1
           /\ tx.Outputs[1].Satoshis = SumValues(utxos) - fee

\* C13 (Split validation): a command line with split < 1, or with split > 1
\* and amount = 0, never gets past flag validation: it ends in an error with
\* no provider reply received, nothing selected, nothing built and no
\* transaction written to standard output (which holds the help text only).
SplitRejected ==
    (split < 1 \/ (split > 1 /\ sats = 0)) =>
        /\ pc \in {"start", "failed"}
        /\ pc = "failed" => (err # NoErr /\ stdout = <<HelpText>>)
        /\ pc = "start" => stdout = <<>>
        /\ reply = NoReply /\ utxos = <<>> /\ selected = <<>>
        /\ tx = NoTx

SplitRejectedWitness ==
    /\ pc = "failed"
    /\ split > 1 /\ sats = 0
    /\ err = Err("--split requires a specific amount")
    /\ reply = NoReply /\ stdout = <<HelpText>>

\* The provider's reply was received and decoded without an error.
ProviderOk ==
    /\ reply.transport = "ok" /\ reply.StatusCode = 200
    /\ reply.body.json /\ reply.body.Error = ""

\* The entries of the reply that are not spent in the mempool, in provider
\* order, as UTXOs.
AsUTXO(e) == [TxHash |-> e.TxHash, TxPos |-> e.TxPos, Value |-> e.Value]
UnspentOfReply ==
    LET kept == SelectSeq(reply.body.Result, LAMBDA e : ~e.IsSpentInMempoolTx)
    IN  [i \in 1..Len(kept) |-> AsUTXO(kept[i])]

\* C14 (Mempool filter): parsing the provider's response returns exactly the
\* entries whose IsSpentInMempoolTx is false, in provider order; every UTXO
\* held by the caller, selected, or used as an input of the built
\* transaction is such an entry.
MempoolFilter ==
    ProviderOk =>
        /\ parseUTXOResponse(reply.body).ok
        /\ parseUTXOResponse(reply.body).utxos = UnspentOfReply
        /\ \A u \in Range(utxos) \cup Range(selected) \cup Range(tx.Inputs) :
               \E e \in Range(reply.body.Result) :
                   ~e.IsSpentInMempoolTx /\ AsUTXO(e) = u

MempoolFilterWitness ==
    /\ pc = "done"
    /\ Len(reply.body.Result) = 2
    /\ reply.body.Result[1].IsSpentInMempoolTx
    /\ ~reply.body.Result[2].IsSpentInMempoolTx
    /\ tx.Inputs = <<AsUTXO(reply.body.Result[2])>>

\* C15 (Deduplication): the UTXO list the workflow holds after the fetch has
\* no two entries with the same (TxHash, TxPos); it consists of the first
\* occurrence of each key among the unspent entries of the reply, in their
\* original relative order.
FirstOccurrences(p) ==
    {i \in 1..Len(p) : \A j \in 1..(i - 1) : Key(p[j]) # Key(p[i])}

Deduplication ==
    /\ \A i, j \in 1..Len(utxos) : i # j => Key(utxos[i]) # Key(utxos[j])
    /\ ProviderOk =>
          LET p == UnspentOfReply
              firsts == FirstOccurrences(p)
          IN  /\ Len(utxos) = Cardinality(firsts)
              /\ \E f \in [1..Len(utxos) -> firsts] :
                    /\ \A k \in 1..(Len(utxos) - 1) : f[k] < f[k + 1]
                    /\ \A k \in 1..Len(utxos) : utxos[k] = p[f[k]]

DeduplicationWitness ==
    /\ pc = "done"
    /\ Len(reply.body.Result) = 2
    /\ ~reply.body.Result[1].IsSpentInMempoolTx
    /\ ~reply.body.Result[2].IsSpentInMempoolTx
    /\ Key(reply.body.Result[1]) = Key(reply.body.Result[2])
    /\ reply.body.Result[1].Value # reply.body.Result[2].Value
    /\ utxos = <<AsUTXO(reply.body.Result[1])>>

\* C16 (InsufficientFunds): on a non-empty list Select fails with an
\* insufficient-funds error exactly when no prefix of the UTXOs sorted by
\* descending value has a sum >= targetAmount + EstimateFee(j, 2, rate); the
\* error then reports the total of all the UTXOs, the target amount and the
\* fee estimated for all of them as inputs, and no UTXO is returned.
NoPrefixReaches ==
    LET sorted == SortSlice(utxos)
    IN  \A j \in 1..Len(sorted) :
            SumValues(SubSeq(sorted, 1, j)) < sats + calculateFee(j, 2, feePerKb)

InsufficientFunds ==
    (pc \in {"select_ok", "select_err"} /\ utxos # <<>>) =>
        /\ (pc = "select_err" /\ err.kind = "insufficient funds") <=> NoPrefixReaches
        /\ pc = "select_err" =>
              /\ err.have = SumValues(utxos)
              /\ err.amount = sats
              /\ err.fee = calculateFee(Len(utxos), 2, feePerKb)
              /\ err.need = sats + err.fee
              /\ selected = <<>>

\* C17 (All-or-nothing): standard output holds a transaction only when the
\* command has finished without an error, after the key was derived, the
\* provider's UTXOs were fetched, and the transaction was built over the
\* selected UTXOs and signed; it then holds exactly that transaction.  A
\* workflow that failed at any of its steps has written nothing and returns
\* an error.  (Flags rejected before the workflow starts leave the help
\* text, and no transaction.)
FlagsAccepted ==
    /\ wif # "" /\ address # ""
    /\ split >= 1
    /\ ~(split > 1 /\ sats = 0)

AllOrNothing ==
    /\ ~FlagsAccepted => stdout \in {<<>>, <<HelpText>>}
    /\ (FlagsAccepted /\ stdout # <<>>) =>
          /\ pc = "done" /\ err = NoErr
          /\ stdout = <<tx>>
          /\ wif \notin {"", "bad"}
          /\ fetchUTXOs(reply).ok /\ utxos = fetchUTXOs(reply).utxos
          /\ selected # <<>> /\ tx.Inputs = selected
    /\ pc \in {"start", "validated", "derived", "fetched", "selected", "built"} =>
          stdout = <<>>
    /\ pc = "failed" => err # NoErr
    /\ (pc = "failed" /\ FlagsAccepted) => stdout = <<>>

AllOrNothingWitness ==
    /\ pc = "failed"
    /\ FlagsAccepted
    /\ err = Err("failed to sign transaction")
    /\ selected # <<>>
    /\ stdout = <<>>

\* pick has parsed its transaction and extractAndOutput has returned.
Extracted == pickTx.parsed /\ pc \in {"pick_done", "failed"}

IsPrefix(a, b) == Len(a) <= Len(b) /\ a = SubSeq(b, 1, Len(a))

\* The lines of the typed selectors whose flag is in F, in typed order.
LinesOf(F) ==
    LET sel == SelectSeq(cmdline, LAMBDA o : o.flag \in F)
    IN  [k \in 1..Len(sel) |-> Line(sel[k].flag, sel[k].value)]
One(f) ==
    IF \E k \in 1..Len(cmdline) : cmdline[k].flag = f THEN <<Line(f, 0)>> ELSE <<>>

RequestedOrder ==
    One("version") \o One("txid") \o LinesOf(OutputFlags) \o LinesOf(InputFlags)
    \o One("locktime")

CanonicalOrder ==
    One("version") \o One("txid")
    \o LinesOf({"output"}) \o LinesOf({"output-script"}) \o LinesOf({"output-value"})
    \o LinesOf({"input"}) \o LinesOf({"input-script"}) \o LinesOf({"input-prevtxid"})
    \o LinesOf({"input-prevout"}) \o LinesOf({"input-sequence"})
    \o One("locktime")

\* C18 (Emission order), as claimed: whatever the selectors and their order on
\* the command line, pick emits version and txid first, then the lines of the
\* output selectors in the order they were typed, then those of the input
\* selectors in the order they were typed, and locktime last (all of them on
\* success, a prefix of them when a selector fails).
EmissionOrderClaimed ==
    Extracted =>
        /\ IsPrefix(stdout, RequestedOrder)
        /\ pc = "pick_done" => stdout = RequestedOrder

\* C18 as amended: version, then txid, then the output selectors grouped by
\* kind (output, output-script, output-value), then the input selectors
\* grouped by kind (input, input-script, input-prevtxid, input-prevout,
\* input-sequence), then locktime; the typed order is kept only among the
\* indices of one kind.
EmissionOrder ==
    Extracted =>
        /\ IsPrefix(stdout, CanonicalOrder)
        /\ pc = "pick_done" => stdout = CanonicalOrder

EmissionOrderWitness ==
    /\ pc = "pick_done"
    /\ cmdline = <<[flag |-> "output-script", value |-> 0],
                   [flag |-> "output", value |-> 0]>>
    /\ stdout = <<Line("output", 0), Line("output-script", 0)>>

\* C19 (Index bounds): once the transaction is parsed, pick fails exactly
\* when some indexed selector has an index < 0 or >= the number of outputs
\* (for an output selector) or inputs (for an input selector); the error is
\* the out-of-range error of such a selector and reports the range
\* 0..count-1.  No selector whose index is inside the range produces it.
Count(f) == IF f \in OutputFlags THEN Len(pickTx.Outputs) ELSE Len(pickTx.Inputs)
BadSelectors ==
    {k \in 1..Len(cmdline) :
        /\ cmdline[k].flag \in OutputFlags \cup InputFlags
        /\ (cmdline[k].value < 0 \/ cmdline[k].value >= Count(cmdline[k].flag))}

IndexBounds ==
    Extracted =>
        /\ pc = "failed" <=> BadSelectors # {}
        /\ pc = "pick_done" => err = NoErr
        /\ pc = "failed" =>
              /\ err.kind = "index out of range"
              /\ \E k \in BadSelectors :
                    /\ err.what = IF cmdline[k].flag \in OutputFlags
                                  THEN "output" ELSE "input"
                    /\ err.idx = cmdline[k].value
                    /\ err.lo = 0
                    /\ err.hi = Count(cmdline[k].flag) - 1

IndexBoundsWitness ==
    /\ pc = "failed"
    /\ cmdline = <<[flag |-> "input", value |-> 0],
                   [flag |-> "output-value", value |-> 1]>>
    /\ Len(pickTx.Outputs) = 1 /\ Len(pickTx.Inputs) = 1
    /\ err = RangeErr("output", 1, 1)
    /\ stdout = <<>>

\* C20 (No selector), as claimed: a pick command without any selector fails
\* with the no-selector error before its transaction input is read or
\* parsed, and has written no line to standard output.
NoSelectorClaimed ==
    (cmdline = <<>> /\ pc # "pick_start") =>
        /\ pc = "failed" /\ err = Err("no selector specified")
        /\ ~inputRead /\ ~pickTx.parsed
        /\ stdout = <<>>

\* C20 as amended: it fails with the no-selector error before its transaction
\* input is read or parsed and emits no field of a transaction; the one
\* thing it writes to standard output is the command's help text.
NoSelector ==
    (cmdline = <<>> /\ pc # "pick_start") =>
        /\ pc = "failed" /\ err = Err("no selector specified")
        /\ ~inputRead /\ ~pickTx.parsed
        /\ stdout = <<HelpText>>

NoSelectorWitness ==
    /\ cmdline = <<>>
    /\ txSource.kind = "tx"
    /\ pc = "failed"
    /\ ~inputRead
    /\ stdout = <<HelpText>>

\* The little-endian integer a hex string spells, as 16-bit limbs.
DigitOf(c) == CHOOSE d \in 0..15 : hextable[d + 1] = c
ByteAt(h, k) == 16 * DigitOf(h[2 * k - 1]) + DigitOf(h[2 * k])
DecodeLE(h) ==
    [j \in 1..(Len(h) \div 4) |-> ByteAt(h, 2 * j - 1) + 256 * ByteAt(h, 2 * j)]

\* C21 (Round-trip extraction): the hex string encodeUint32LE produces for a
\* 32-bit value has 8 characters, the one encodeUint64LE produces for a 64-bit
\* value has 16, all of them lowercase hex digits, and the string decoded as
\* a little-endian integer is the value, bit for bit.
RoundTrip ==
    pc = "enc_ret" =>
        /\ Len(encHex) = 4 * Len(encValue)
        /\ \A i \in 1..Len(encHex) : \E d \in 0..15 : hextable[d + 1] = encHex[i]
        /\ DecodeLE(encHex) = encValue

RoundTripWitness ==
    /\ pc = "enc_ret"
    /\ encValue = <<4660, 43981>>
    /\ encHex = <<"3", "4", "1", "2", "c", "d", "a", "b">>

\* The plain sum of the values of the UTXOs at the positions in S.
RECURSIVE SumAt(_, _)
SumAt(u, S) ==
    IF S = {} THEN 0
    ELSE LET i == CHOOSE x \in S : TRUE
         IN  u[i].Value + SumAt(u, S \ {i})

Before(u, v) == u.Value > v.Value \/ (u.Value = v.Value /\ u.TxPos < v.TxPos)

DescendingByValue ==
    /\ \A i \in 1..(Len(selected) - 1) : selected[i].Value >= selected[i + 1].Value
    /\ \A u \in Range(utxos) \ Range(selected) :
          \A v \in Range(selected) : u.Value <= v.Value

StableOrder ==
    /\ \A i \in 1..(Len(selected) - 1) : Before(selected[i], selected[i + 1])
    /\ \A u \in Range(utxos) \ Range(selected) :
          \A v \in Range(selected) : Before(v, u)

\* C23 (Stable tie-break), as claimed: for input lists of every length the
\* UTXOs Select returns are in descending value order with equal values in
\* their original relative order, and among equal-valued UTXOs the earliest
\* in the input are the ones selected.
StableTieBreakClaimed ==
    pc = "select_ok" => StableOrder

\* C23 as amended: Select takes UTXOs in descending value order for lists of
\* every length; equal values keep their original relative order, and the
\* earliest of them are selected first, for lists of at most 12 UTXOs.
StableTieBreak ==
    pc = "select_ok" =>
        /\ DescendingByValue
        /\ Len(utxos) <= 12 => StableOrder

StableTieBreakWitness ==
    /\ pc = "select_ok"
    /\ Len(utxos) = 3
    /\ utxos[2].Value = TieValue /\ utxos[3].Value = TieValue
    /\ selected = <<utxos[2]>>

\* The number of payment outputs buildTransaction writes before the change
\* step: none in send-all, else the split count, at least one.
BuildPayments == IF sats > 0 THEN Max(split, 1) ELSE 0
OutputIncrement == MulWord(outputSize, feePerKb) \div 1000

\* C24 (Build fee), as claimed: the fee used in the change step is
\* EstimateFee(inputs, payment outputs + 1, feePerKB) plus one output-sized
\* increment floor(34 * feePerKB / 1000).
BuildFeeClaimed ==
    Built =>
        fee = AddWord(calculateFee(Len(tx.Inputs), BuildPayments + 1, feePerKb),
                      OutputIncrement)

\* C24 as amended: the fee used in the change step is the fee of the size
\* with the payment outputs only, floor(size * feePerKB / 1000), plus one
\* output-sized increment floor(34 * feePerKB / 1000), raised to 100 when the
\* sum is below 100 (all in machine-word arithmetic).
BuildFee ==
    Built =>
        LET size == Len(tx.Inputs) * inputSize + BuildPayments * outputSize
                    + baseTxSize
            sum == AddWord(MulWord(size, feePerKb) \div 1000, OutputIncrement)
        IN  fee = Max(minFee, sum)

BuildFeeWitness ==
    /\ Built
    /\ Len(tx.Inputs) = 1 /\ sats > 0 /\ split = 2 /\ feePerKb = 1000
    /\ fee = 260

\* The positions (1-based) at which the parse of bytes reads an opcode: the
\* first byte, and the byte after each complete token.
IsDirect(p) == bytes[p] >= 1 /\ bytes[p] <= 75
IsPushData1(p) == bytes[p] = 76
DataStart(p) == IF IsPushData1(p) THEN p + 2 ELSE p + 1
DataLen(p) == IF IsPushData1(p) THEN bytes[p + 1] ELSE bytes[p]
Complete(p) ==
    IF IsDirect(p) THEN p + bytes[p] <= Len(bytes)
    ELSE IF IsPushData1(p)
         THEN p + 1 <= Len(bytes) /\ p + 1 + bytes[p + 1] <= Len(bytes)
         ELSE TRUE
TokenEnd(p) == IF IsDirect(p) \/ IsPushData1(p) THEN DataStart(p) + DataLen(p) ELSE p + 1
RECURSIVE OpcodesFrom(_)
OpcodesFrom(p) ==
    IF p > Len(bytes) THEN {}
    ELSE {p} \cup (IF Complete(p) THEN OpcodesFrom(TokenEnd(p)) ELSE {})
KeyPushes ==
    {p \in OpcodesFrom(1) :
        /\ (IsDirect(p) \/ IsPushData1(p)) /\ Complete(p)
        /\ DataLen(p) \in {33, 65}}
LastKeyPush == CHOOSE p \in KeyPushes : \A q \in KeyPushes : q <= p

\* C25 (Truncation-tolerant script parse): for every byte string,
\* extractPublicKeyFromScript returns without reading outside the buffer; a
\* direct push or OP_PUSHDATA1 push whose declared length exceeds the
\* remaining bytes stops the parse, and the result is the data of the last
\* complete push of length 33 or 65 before that point, or empty if there is
\* none.
TruncationTolerant ==
    /\ pc # "script_beyond"
    /\ pc = "script_ret" =>
          IF KeyPushes = {} THEN pubKeyBytes = <<>>
          ELSE pubKeyBytes = SubSeq(bytes, DataStart(LastKeyPush),
                                    DataStart(LastKeyPush) + DataLen(LastKeyPush) - 1)

TruncationTolerantWitness ==
    /\ pc = "script_ret"
    /\ Len(bytes) > 34 /\ Len(bytes) < 69
    /\ bytes[1] = 33 /\ bytes[35] = OP_PUSHDATA1
    /\ pubKeyBytes = KeyA

FinalStatuses == {"MINED", "REJECTED", "DOUBLE_SPEND_ATTEMPTED"}
IsQuery(e) == e.kind = "query"
FinalQuery(e) == IsQuery(e) /\ e.ok /\ e.status \in FinalStatuses

\* C26 (Monitoring stop condition): txstatus's monitoring has ended normally
\* exactly when the last thing it did is a successful query that returned
\* MINED, REJECTED or DOUBLE_SPEND_ATTEMPTED; nothing, in particular no
\* query, follows such a query; it does not end on another status or on a
\* failed query inside the loop (only a failure of the initial check, before
\* the loop, ends it with an error).
MonitoringStop ==
    /\ pc = "mon_done" <=> (trace # <<>> /\ FinalQuery(trace[Len(trace)]))
    /\ \A i \in 1..(Len(trace) - 1) : ~FinalQuery(trace[i])
    /\ pc = "mon_err" => (Len(trace) = 1 /\ ~trace[1].ok)

MonitoringStopWitness ==
    /\ pc = "mon_done"
    /\ Len(trace) = 5
    /\ trace[1] = [kind |-> "query", ok |-> TRUE, status |-> "SEEN_ON_NETWORK"]
    /\ trace[3] = [kind |-> "query", ok |-> FALSE, status |-> ""]
    /\ trace[5] = [kind |-> "query", ok |-> TRUE, status |-> "MINED"]

\* C27 (Poll, sleep, repeat): in broadcast's monitoring loop every status
\* query after the first comes directly after a wait for the ticker, also
\* when the query before it failed.
PollSleepRepeat ==
    \A i \in 2..Len(trace) : IsQuery(trace[i]) => trace[i - 1].kind = "wait"

\* After a successful query the loop does wait before it asks again.
WaitAfterStatus ==
    \A i \in 2..Len(trace) :
        (IsQuery(trace[i]) /\ trace[i - 1].kind # "wait") => ~trace[i - 1].ok

\* C28 (No underflow of change): whenever the carve workflow has built a
\* transaction, in send-all or after a successful Select with any split
\* count, totalInput >= amount + build fee in plain arithmetic, so the
\* change does not wrap and no output is larger than the inputs.
NoUnderflow ==
    Built =>
        /\ totalInput >= sats + fee
        /\ \A i \in 1..Len(tx.Outputs) : tx.Outputs[i].Satoshis <= totalInput

\* Probes: the two ways the subtraction wraps.
UnderflowSendAll ==
    Built /\ sats = 0 /\ totalInput < fee
UnderflowSplit ==
    /\ Built /\ sats = 774 /\ split = 3 /\ feePerKb = 1000
    /\ totalInput = 1000 /\ fee = 294
    /\ tx.Outputs[4].Satoshis = Word - 68

\* A transaction shape with k inputs and n outputs, for the fee of the
\* change step.
Shape(k, n) == [Inputs |-> [i \in 1..k |-> "in"], Outputs |-> [i \in 1..n |-> "out"]]
FitsWord(k, rate) == (k * inputSize + 2 * outputSize + baseTxSize) * rate < Word

\* C29 (Selection budget covers the build fee for an unsplit payment): for
\* every input count k >= 1 and fee rate whose products fit the word, the
\* fee of the change step for k inputs and one payment output is at most
\* calculateFee(k, 2, rate); and a transaction built for a payment with
\* split = 1 after a successful Select has totalInput >= amount + fee.
BudgetCoversBuildFee ==
    (Built /\ sats > 0 /\ split = 1) =>
        /\ \A k \in 1..MaxFeeInputs : \A rate \in FeeRates :
              FitsWord(k, rate) => changeFee(Shape(k, 1), rate) <= calculateFee(k, 2, rate)
        /\ (FitsWord(Len(tx.Inputs), feePerKb) /\ sats + fee < Word) =>
              totalInput >= sats + fee

BudgetCoversBuildFeeWitness ==
    /\ Built /\ sats = 774 /\ split = 1 /\ feePerKb = 1000
    /\ totalInput = 1000 /\ fee = 226
    /\ Len(tx.Outputs) = 1

\* The lines of the canonical emission order whose selector is out of range.
BadLine(l) ==
    /\ l.field \in OutputFlags \cup InputFlags
    /\ (l.idx < 0 \/ l.idx >= Count(l.field))
BadAt == {k \in 1..Len(CanonicalOrder) : BadLine(CanonicalOrder[k])}
FirstBad == CHOOSE k \in BadAt : \A j \in BadAt : k <= j

\* C30 (Extraction stops at the first failing selector): when some indexed
\* selector is out of range, pick has emitted exactly the lines of the
\* selectors that precede the first such selector in the canonical emission
\* order, nothing for it or for any later selector (locktime included), and
\* returns that selector's error.
StopsAtFirstFailure ==
    (Extracted /\ BadAt # {}) =>
        LET bad == CanonicalOrder[FirstBad]
        IN  /\ pc = "failed"
            /\ stdout = SubSeq(CanonicalOrder, 1, FirstBad - 1)
            /\ \A i \in 1..Len(stdout) : stdout[i] # Line("locktime", 0)
            /\ err = RangeErr(IF bad.field \in OutputFlags THEN "output" ELSE "input",
                              bad.idx, Count(bad.field))

StopsAtFirstFailureWitness ==
    /\ pc = "failed"
    /\ cmdline = <<[flag |-> "input-script", value |-> 1],
                   [flag |-> "output", value |-> 0]>>
    /\ Len(pickTx.Outputs) = 1 /\ Len(pickTx.Inputs) = 1
    /\ stdout = <<Line("output", 0)>>
    /\ err = RangeErr("input", 1, 1)

====
